---- MODULE Spec2Model ----
(***************************************************************************)
(* A model of the task decomposition and multi-step execution orchestrator *)
(* of locus: the keyword and LLM task planner (task_planner.py), the       *)
(* streaming coordinator process_chat_message_streaming (agent.py), the    *)
(* /chat/stream router around it (chat.py) and the module-level tool       *)
(* configuration the tool registry installs (slack.py).                    *)
(*                                                                         *)
(* Python strings are TLA+ strings; Python's None is the value None below; *)
(* a dict is a record (LLM task objects) or a set of <<key, value>> pairs. *)
(***************************************************************************)
EXTENDS Naturals, Sequences, FiniteSets, TLC

VARIABLES
    pc,             \* where the generator process_chat_message_streaming stands
    message,        \* the user's message (argument)
    configs,        \* keys of integration_configs (argument)
    userKey,        \* gemini_api_key argument is a non-empty string
    envKey,         \* the environment variable GOOGLE_API_KEY is set
    llm,            \* what the planner's LLM call did in this request
    plan,           \* task_plan (TaskPlan)
    trace,          \* intermediate_steps returned by agent.invoke
    idx,            \* the loop variable i (0-based) of the step loop
    cur,            \* locals of the current step: matching_task, task_id, is_success
    actions_taken,  \* the list actions_taken
    completed_tasks, \* the dict completed_tasks
    agent,          \* the agent turn of the request: what it did and the input it got
    events,         \* the events yielded so far, in order
    calls,          \* how often the planner, the agent and the single-shot path ran
    \* chat_stream (routers/chat.py)
    rpc,            \* where the request stands in chat_stream and its generators
    req,            \* what the database holds about the request's user and conversation
    db,             \* the messages persisted in the conversation, in order
    sse,            \* the events sent to the client, in order
    error_msg,      \* the text an error_generator sends
    final_message,  \* event_generator's final_message
    stream_actions, \* event_generator's actions_taken
    \* two requests of different users sharing the module-level _slack_config
    t_pc,           \* where each request's generator stands
    slack_config,   \* slack._slack_config["bot_token"]
    t_used,         \* the bot tokens the tool calls of each request's agent turn used
    \* successive calls of the planner in one process
    planner_log     \* the arguments and the returned plan of each call so far

routerVars == <<rpc, req, db, sse, error_msg, final_message, stream_actions>>

tenantVars == <<t_pc, slack_config, t_used>>

plannerVars == <<planner_log>>

coordVars == <<pc, message, configs, userKey, envKey, llm, plan, trace, idx, cur,
               actions_taken, completed_tasks, agent, events, calls>>

(***************************************************************************)
(* Bounds of the model.                                                    *)
(***************************************************************************)
MaxLLMTasks == 2
MaxTrace == 2

None == "<None>"

(***************************************************************************)
(* Strings.                                                                *)
(***************************************************************************)
DigitChars == "0123456789"

CharAt(s, i) == SubSeq(s, i, i)

\* k in s
Contains(s, k) ==
    \E i \in 1..(Len(s) + 1) : i + Len(k) - 1 <= Len(s) /\ SubSeq(s, i, i + Len(k) - 1) = k

LowerOf ==
    [A |-> "a", B |-> "b", C |-> "c", D |-> "d", E |-> "e", F |-> "f", G |-> "g",
     H |-> "h", I |-> "i", J |-> "j", K |-> "k", L |-> "l", M |-> "m", N |-> "n",
     O |-> "o", P |-> "p", Q |-> "q", R |-> "r", S |-> "s", T |-> "t", U |-> "u",
     V |-> "v", W |-> "w", X |-> "x", Y |-> "y", Z |-> "z"]

UpperOf ==
    [a |-> "A", b |-> "B", c |-> "C", d |-> "D", e |-> "E", f |-> "F", g |-> "G",
     h |-> "H", i |-> "I", j |-> "J", k |-> "K", l |-> "L", m |-> "M", n |-> "N",
     o |-> "O", p |-> "P", q |-> "Q", r |-> "R", s |-> "S", t |-> "T", u |-> "U",
     v |-> "V", w |-> "W", x |-> "X", y |-> "Y", z |-> "Z"]

\* str.lower and str.upper, on ASCII text (the text is split in halves to keep
\* the recursion shallow)
RECURSIVE lower(_)
lower(s) ==
    IF Len(s) = 0 THEN ""
    ELSE IF Len(s) = 1 THEN (IF s \in DOMAIN LowerOf THEN LowerOf[s] ELSE s)
    ELSE lower(SubSeq(s, 1, Len(s) \div 2)) \o lower(SubSeq(s, Len(s) \div 2 + 1, Len(s)))

RECURSIVE upper(_)
upper(s) ==
    IF Len(s) = 0 THEN ""
    ELSE IF Len(s) = 1 THEN (IF s \in DOMAIN UpperOf THEN UpperOf[s] ELSE s)
    ELSE upper(SubSeq(s, 1, Len(s) \div 2)) \o upper(SubSeq(s, Len(s) \div 2 + 1, Len(s)))

\* the regular expression class \w
IsWordChar(c) ==
    c \in DOMAIN LowerOf \/ c \in DOMAIN UpperOf \/ Contains(DigitChars, c) \/ c = "_"

\* the character classes of the regular expressions of _fallback_parse_tasks
InClass(cls, c) ==
    CASE cls = "word" -> IsWordChar(c)                                    \* \w
      [] cls = "local" -> IsWordChar(c) \/ c = "." \/ c = "+" \/ c = "-"    \* [\w.+-]
      [] cls = "domain" -> IsWordChar(c) \/ c = "-"                        \* [\w-]
      [] cls = "tld" -> IsWordChar(c) \/ c = "." \/ c = "-"                 \* [\w.-]
      [] cls = "space" -> c = " "                                         \* \s

\* the end of the longest run of characters of class cls that starts at i
\* (i - 1 when s[i] is not of the class)
RECURSIVE RunEnd(_, _, _)
RunEnd(s, i, cls) ==
    IF i <= Len(s) /\ InClass(cls, CharAt(s, i)) THEN RunEnd(s, i + 1, cls) ELSE i - 1

\* s[:n]
Prefix(s, n) == IF Len(s) <= n THEN s ELSE SubSeq(s, 1, n)

(***************************************************************************)
(* dict helpers: a dict with string keys as a set of <<key, value>> pairs  *)
(***************************************************************************)
DictSet(d, k, v) == {p \in d : p[1] # k} \cup {<<k, v>>}
DictHas(d, k) == \E p \in d : p[1] = k

\* task_data.get(k, default) on a parsed JSON object
Get(d, k, default) == IF k \in DOMAIN d THEN d[k] ELSE default

(***************************************************************************)
(* task_planner.py                                                         *)
(***************************************************************************)
PENDING == "pending"
IN_PROGRESS == "in_progress"
COMPLETED == "completed"
FAILED == "failed"

PlannedTask(id, service, action, description, tool_name, parameters, depends_on) ==
    [id |-> id, service |-> service, action |-> action, description |-> description,
     tool_name |-> tool_name, parameters |-> parameters, status |-> PENDING,
     result |-> None, error |-> None, depends_on |-> depends_on]

TaskPlan ==
    [tasks |-> <<>>, total |-> 0, completed |-> 0, failed |-> 0,
     current_task_id |-> None, task_results |-> {}]

SERVICE_TOOL_MAP ==
    {<<"slack", "send_message", "slack_send_message">>,
     <<"slack", "post_update", "slack_post_update">>,
     <<"slack", "list_channels", "slack_list_channels">>,
     <<"jira", "create_issue", "jira_create_issue">>,
     <<"jira", "create_bug", "jira_create_issue">>,
     <<"jira", "search", "jira_search_issues">>,
     <<"jira", "add_comment", "jira_add_comment">>,
     <<"calendar", "create_event", "calendar_create_event">>,
     <<"calendar", "create_meeting", "calendar_create_event">>,
     <<"calendar", "update_event", "calendar_update_event">>,
     <<"calendar", "delete_event", "calendar_delete_event">>,
     <<"gmail", "send_email", "gmail_send_email">>,
     <<"gmail", "read_emails", "gmail_read_latest_emails">>,
     <<"notion", "search", "notion_search">>,
     <<"notion", "create_page", "notion_create_page">>,
     <<"notion", "append_content", "notion_append_content">>,
     <<"notion", "get_page", "notion_get_page">>,
     <<"docs", "create_document", "docs_create_document">>,
     <<"docs", "append_content", "docs_append_content">>,
     <<"sheets", "create_spreadsheet", "sheets_create_spreadsheet">>,
     <<"sheets", "add_rows", "sheets_add_rows">>,
     <<"bugasura", "create_issue", "bugasura_create_issue">>,
     <<"bugasura", "list_issues", "bugasura_list_issues">>,
     <<"github", "list_repos", "github_list_repos">>,
     <<"github", "get_repo", "github_get_repo">>,
     <<"github", "create_repo", "github_create_repo">>,
     <<"github", "list_issues", "github_list_issues">>,
     <<"github", "create_issue", "github_create_issue">>,
     <<"github", "update_issue", "github_update_issue">>,
     <<"github", "add_comment", "github_add_issue_comment">>,
     <<"github", "list_prs", "github_list_prs">>,
     <<"github", "create_pr", "github_create_pr">>,
     <<"github", "merge_pr", "github_merge_pr">>,
     <<"linear", "list_teams", "linear_list_teams">>,
     <<"linear", "list_issues", "linear_list_issues">>,
     <<"linear", "get_issue", "linear_get_issue">>,
     <<"linear", "create_issue", "linear_create_issue">>,
     <<"linear", "update_issue", "linear_update_issue">>,
     <<"linear", "add_comment", "linear_add_comment">>,
     <<"linear", "list_states", "linear_list_states">>}

\* SERVICE_TOOL_MAP.get(service, {}).get(action, f"{service}_{action}")
ToolNameOf(service, action) ==
    IF \E e \in SERVICE_TOOL_MAP : e[1] = service /\ e[2] = action
    THEN (CHOOSE e \in SERVICE_TOOL_MAP : e[1] = service /\ e[2] = action)[3]
    ELSE service \o "_" \o action

\* any(k in message_lower for k in keywords)
AnyKeyword(message_lower, keywords) == \E k \in keywords : Contains(message_lower, k)

\* re.search(r"#(\w+)", message): the start of the leftmost match, 0 when none
ChannelMatchStart(msg) ==
    LET starts == {i \in 1..Len(msg) :
                     CharAt(msg, i) = "#" /\ i < Len(msg) /\ IsWordChar(CharAt(msg, i + 1))}
    IN  IF starts = {} THEN 0 ELSE CHOOSE i \in starts : \A j \in starts : i <= j

\* the channel the Slack detection extracts
ExtractChannel(msg) ==
    LET m == ChannelMatchStart(msg)
    IN  IF Contains(msg, "#") /\ m # 0
        THEN SubSeq(msg, m + 1, RunEnd(msg, m + 1, "word"))
        ELSE "general"

\* the end of the match of [\w.+-]+@[\w-]+\.[\w.-]+ that starts at i, 0 when none
EmailMatchEnd(msg, i) ==
    LET e1 == RunEnd(msg, i, "local")
        e2 == RunEnd(msg, e1 + 2, "domain")
        e3 == RunEnd(msg, e2 + 2, "tld")
    IN  IF /\ e1 >= i
           /\ e1 + 1 <= Len(msg) /\ CharAt(msg, e1 + 1) = "@"
           /\ e2 >= e1 + 2
           /\ e2 + 1 <= Len(msg) /\ CharAt(msg, e2 + 1) = "."
           /\ e3 >= e2 + 2
        THEN e3 ELSE 0

\* email_match.group(0) if email_match else ""
ExtractEmail(msg) ==
    LET starts == {i \in 1..Len(msg) : EmailMatchEnd(msg, i) # 0}
    IN  IF starts = {} THEN ""
        ELSE LET i == CHOOSE i \in starts : \A j \in starts : i <= j
             IN  SubSeq(msg, i, EmailMatchEnd(msg, i))

\* re.search(r"project\s+(\w+)", message_lower): the start of group 1, 0 when none
ProjectMatchStart(message_lower) ==
    LET starts == {i \in 1..Len(message_lower) :
                     /\ i + 6 <= Len(message_lower)
                     /\ SubSeq(message_lower, i, i + 6) = "project"
                     /\ RunEnd(message_lower, i + 7, "space") >= i + 7
                     /\ RunEnd(message_lower, i + 7, "space") < Len(message_lower)
                     /\ IsWordChar(CharAt(message_lower,
                                          RunEnd(message_lower, i + 7, "space") + 1))}
    IN  IF starts = {} THEN 0
        ELSE RunEnd(message_lower, (CHOOSE i \in starts : \A j \in starts : i <= j) + 7,
                    "space") + 1

ExtractProjectKey(message_lower) ==
    LET g == ProjectMatchStart(message_lower)
    IN  IF g # 0 THEN upper(SubSeq(message_lower, g, RunEnd(message_lower, g, "word")))
        ELSE "PROJ"

\* f"task_{n}"
TaskIdOf(n) == "task_" \o ToString(n)

\* [t.id for t in tasks]
IdsOf(tasks) == [k \in 1..Len(tasks) |-> tasks[k].id]

\* [t.id for t in tasks if t.service == service]
RECURSIVE IdsOfService(_, _)
IdsOfService(tasks, service) ==
    IF tasks = <<>> THEN <<>>
    ELSE (IF Head(tasks).service = service THEN <<Head(tasks).id>> ELSE <<>>)
         \o IdsOfService(Tail(tasks), service)

\* The five detections of _fallback_parse_tasks; st is [tasks, task_counter].
DetectSlack(st, msg, available_services) ==
    IF "slack" \in available_services /\ AnyKeyword(lower(msg), {"slack", "post", "channel"})
    THEN LET n == st.task_counter + 1
             channel == ExtractChannel(msg)
         IN  [tasks |-> Append(st.tasks,
                               PlannedTask(TaskIdOf(n), "slack", "send_message",
                                           "Send message to #" \o channel,
                                           "slack_send_message", {<<"channel", channel>>},
                                           <<>>)),
              task_counter |-> n]
    ELSE st

DetectCalendar(st, msg, available_services) ==
    IF /\ "calendar" \in available_services
       /\ AnyKeyword(lower(msg), {"meeting", "calendar", "schedule", "event"})
    THEN LET n == st.task_counter + 1
         IN  [tasks |-> Append(st.tasks,
                               PlannedTask(TaskIdOf(n), "calendar", "create_event",
                                           "Create calendar event", "calendar_create_event",
                                           {}, <<>>)),
              task_counter |-> n]
    ELSE st

\* DetectGmail that never records a dependency
DetectGmailNoDependency(st, msg, available_services) ==
    IF "gmail" \in available_services /\ AnyKeyword(lower(msg), {"email", "mail", "send mail"})
    THEN LET n == st.task_counter + 1
             to_email == ExtractEmail(msg)
         IN  [tasks |-> Append(st.tasks,
                               PlannedTask(TaskIdOf(n), "gmail", "send_email",
                                           "Send email to " \o to_email, "gmail_send_email",
                                           {<<"to", to_email>>}, <<>>)),
              task_counter |-> n]
    ELSE st

DetectGmail(st, msg, available_services) ==
    IF "gmail" \in available_services /\ AnyKeyword(lower(msg), {"email", "mail", "send mail"})
    THEN LET n == st.task_counter + 1
             to_email == ExtractEmail(msg)
             depends_on == IF \E k \in 1..Len(st.tasks) : st.tasks[k].service = "calendar"
                           THEN IdsOfService(st.tasks, "calendar")
                           ELSE <<>>
         IN  [tasks |-> Append(st.tasks,
                               PlannedTask(TaskIdOf(n), "gmail", "send_email",
                                           "Send email to " \o to_email, "gmail_send_email",
                                           {<<"to", to_email>>}, depends_on)),
              task_counter |-> n]
    ELSE st

DetectJira(st, msg, available_services) ==
    IF /\ "jira" \in available_services
       /\ AnyKeyword(lower(msg), {"jira", "ticket", "issue", "bug"})
    THEN LET n == st.task_counter + 1
             project_key == ExtractProjectKey(lower(msg))
         IN  [tasks |-> Append(st.tasks,
                               PlannedTask(TaskIdOf(n), "jira", "create_issue",
                                           "Create Jira issue in " \o project_key,
                                           "jira_create_issue",
                                           {<<"project_key", project_key>>}, <<>>)),
              task_counter |-> n]
    ELSE st

\* DetectNotion that depends on the task detected last only
DetectNotionDependsOnLast(st, msg, available_services) ==
    IF /\ "notion" \in available_services
       /\ AnyKeyword(lower(msg), {"notion", "summarize", "summary", "document"})
    THEN LET n == st.task_counter + 1
         IN  [tasks |-> Append(st.tasks,
                               PlannedTask(TaskIdOf(n), "notion", "append_content",
                                           "Summarize actions in Notion",
                                           "notion_append_content", {},
                                           IF st.tasks = <<>> THEN <<>>
                                           ELSE <<st.tasks[Len(st.tasks)].id>>)),
              task_counter |-> n]
    ELSE st

DetectNotion(st, msg, available_services) ==
    IF /\ "notion" \in available_services
       /\ AnyKeyword(lower(msg), {"notion", "summarize", "summary", "document"})
    THEN LET n == st.task_counter + 1
         IN  [tasks |-> Append(st.tasks,
                               PlannedTask(TaskIdOf(n), "notion", "append_content",
                                           "Summarize actions in Notion",
                                           "notion_append_content", {},
                                           IdsOf(st.tasks))),
              task_counter |-> n]
    ELSE st

_fallback_parse_tasks(msg, available_services) ==
    LET s0 == [tasks |-> <<>>, task_counter |-> 0]
        s1 == DetectSlack(s0, msg, available_services)
        s2 == DetectCalendar(s1, msg, available_services)
        s3 == DetectGmail(s2, msg, available_services)
        s4 == DetectJira(s3, msg, available_services)
        s5 == DetectNotion(s4, msg, available_services)
    IN  [TaskPlan EXCEPT !.tasks = s5.tasks, !.total = Len(s5.tasks)]

(***************************************************************************)
(* What the planner's LLM call can do: raise, answer text json.loads       *)
(* rejects, or answer a JSON array.  An element of the array is a task     *)
(* object (a record holding the keys the model wrote) or a value that is   *)
(* no object, written [malformed |-> TRUE], on which task_data.get raises. *)
(* The answer can also be a JSON object: json.loads accepts it and the     *)
(* loop over tasks_data then walks its keys, which are strings.            *)
(***************************************************************************)
IsTaskObject(task_data) == "malformed" \notin DOMAIN task_data

\* ConvertTask without the check that the service is available
ConvertTaskNoServiceCheck(tasks, task_data, available_services) ==
    LET service == lower(Get(task_data, "service", ""))
        action == lower(Get(task_data, "action", ""))
    IN  Append(tasks,
               PlannedTask(Get(task_data, "id", TaskIdOf(Len(tasks) + 1)),
                           service, action,
                           Get(task_data, "description", ""),
                           ToolNameOf(service, action),
                           Get(task_data, "parameters", {}),
                           Get(task_data, "depends_on", <<>>)))

\* One iteration of the loop over tasks_data (a task object): tasks is plan.tasks.
ConvertTask(tasks, task_data, available_services) ==
    LET service == lower(Get(task_data, "service", ""))
        action == lower(Get(task_data, "action", ""))
    IN  IF service \notin available_services
        THEN tasks
        ELSE Append(tasks,
                    PlannedTask(Get(task_data, "id", TaskIdOf(Len(tasks) + 1)),
                                service, action,
                                Get(task_data, "description", ""),
                                ToolNameOf(service, action),
                                Get(task_data, "parameters", {}),
                                Get(task_data, "depends_on", <<>>)))

\* The loop over tasks_data, all elements task objects.
RECURSIVE ConvertTasks(_, _, _)
ConvertTasks(tasks, tasks_data, available_services) ==
    IF tasks_data = <<>> THEN tasks
    ELSE ConvertTasks(ConvertTask(tasks, Head(tasks_data), available_services),
                      Tail(tasks_data), available_services)

\* The except branch is taken: the call raised, the text did not parse, or an
\* element of the array is no object.
LLMPathRaises(llm_result) ==
    \/ llm_result.kind \in {"raise", "unparseable"}
    \/ llm_result.kind = "object" /\ llm_result.keys # <<>>
    \/ /\ llm_result.kind = "array"
       /\ \E k \in 1..Len(llm_result.tasks_data) : ~IsTaskObject(llm_result.tasks_data[k])

\* what the loop at line 286 walks: the array, or the keys of the object
TasksDataOf(llm_result) ==
    IF llm_result.kind = "object" THEN llm_result.keys ELSE llm_result.tasks_data

\* parse_tasks_from_message that returns the tasks converted before the failure
\* instead of the fallback plan
parse_tasks_keeps_partial_plan(msg, available_services, has_env_key, llm_result) ==
    IF ~has_env_key \/ llm_result.kind \in {"raise", "unparseable"}
    THEN _fallback_parse_tasks(msg, available_services)
    ELSE LET tasks_data == IF llm_result.kind = "object" THEN <<>>
                           ELSE SelectSeq(llm_result.tasks_data, IsTaskObject)
             tasks == ConvertTasks(<<>>, tasks_data, available_services)
         IN  [TaskPlan EXCEPT !.tasks = tasks, !.total = Len(tasks)]

\* has_env_key: os.getenv("GOOGLE_API_KEY") is set; llm_result: what the call did.
parse_tasks_from_message(msg, available_services, has_env_key, llm_result) ==
    IF ~has_env_key
    THEN _fallback_parse_tasks(msg, available_services)
    ELSE IF LLMPathRaises(llm_result)
    THEN _fallback_parse_tasks(msg, available_services)
    ELSE LET tasks == ConvertTasks(<<>>, TasksDataOf(llm_result), available_services)
         IN  [TaskPlan EXCEPT !.tasks = tasks, !.total = Len(tasks)]

\* PlannedTask.to_dict
PlannedTask_to_dict(t) ==
    [task_id |-> t.id, service |-> t.service, action |-> t.action,
     description |-> t.description, tool_name |-> t.tool_name,
     parameters |-> t.parameters, status |-> t.status, result |-> t.result,
     error |-> t.error, depends_on |-> t.depends_on]

\* TaskPlan.to_dict
TaskPlan_to_dict(p) ==
    [tasks |-> [k \in 1..Len(p.tasks) |-> PlannedTask_to_dict(p.tasks[k])],
     total |-> p.total, completed |-> p.completed, failed |-> p.failed,
     current_task_id |-> p.current_task_id]

\* deps_satisfied of get_next_task for the task at k
deps_satisfied(p, k) ==
    \A d \in 1..Len(p.tasks[k].depends_on) :
       \E j \in 1..Len(p.tasks) :
          p.tasks[j].id = p.tasks[k].depends_on[d] /\ p.tasks[j].status = COMPLETED

\* the loop of get_next_task from position k on: the position of the task it
\* returns, 0 for None
RECURSIVE NextTaskFrom(_, _)
NextTaskFrom(p, k) ==
    IF k > Len(p.tasks) THEN 0
    ELSE IF p.tasks[k].status # PENDING THEN NextTaskFrom(p, k + 1)
    ELSE IF deps_satisfied(p, k) THEN k
    ELSE NextTaskFrom(p, k + 1)

\* get_next_task that returns the first pending task whatever it depends on
get_next_task_ignores_dependencies(p) ==
    LET pending == {k \in 1..Len(p.tasks) : p.tasks[k].status = PENDING}
    IN  IF pending = {} THEN 0 ELSE CHOOSE k \in pending : \A j \in pending : k <= j

\* TaskPlan.get_next_task
get_next_task(p) == NextTaskFrom(p, 1)

\* the position of the first task whose id is task_id, 0 when there is none
FirstWithId(tasks, task_id) ==
    IF \E k \in 1..Len(tasks) : tasks[k].id = task_id
    THEN CHOOSE k \in 1..Len(tasks) :
            tasks[k].id = task_id /\ \A j \in 1..(k - 1) : tasks[j].id # task_id
    ELSE 0

\* TaskPlan.update_task_status; result and error are None when not passed
update_task_status(p, task_id, status, result, error) ==
    LET k == FirstWithId(p.tasks, task_id)
    IN  IF k = 0 THEN p
        ELSE LET set_result == result # None /\ result # ""
                 set_error == error # None /\ error # ""
                 t == [p.tasks[k] EXCEPT
                         !.status = status,
                         !.result = IF set_result THEN result ELSE @,
                         !.error = IF set_error THEN error ELSE @]
             IN  [p EXCEPT
                    !.tasks[k] = t,
                    !.task_results = IF set_result THEN DictSet(@, task_id, result) ELSE @,
                    !.completed = IF status = COMPLETED THEN @ + 1 ELSE @,
                    !.failed = IF status = FAILED THEN @ + 1 ELSE @,
                    !.current_task_id = IF status = IN_PROGRESS THEN task_id ELSE @]

(***************************************************************************)
(* agent.py                                                                *)
(***************************************************************************)
\* The tools get_<service>_tools returns, by the key build_tools looks up.
ToolsOfService(service) ==
    CASE service = "jira" ->
            {"jira_create_issue", "jira_update_issue", "jira_add_comment",
             "jira_transition_issue", "jira_search_issues", "jira_create_project",
             "jira_delete_project", "jira_list_workflows", "jira_assign_workflow",
             "jira_list_permission_schemes", "jira_assign_permission_scheme"}
      [] service = "gmail" ->
            {"gmail_send_email", "gmail_search_emails", "gmail_get_unread",
             "gmail_create_draft"}
      [] service = "calendar" ->
            {"calendar_create_event", "calendar_update_event", "calendar_delete_event"}
      [] service = "slack" ->
            {"slack_send_message", "slack_post_update", "slack_list_channels"}
      [] service = "notion" ->
            {"notion_search", "notion_get_page", "notion_list_pages", "notion_create_page",
             "notion_append_content"}
      [] service = "bugasura" ->
            {"bugasura_create_issue", "bugasura_list_issues", "bugasura_add_comment",
             "bugasura_get_issue"}
      [] service = "docs" -> {"docs_create_document", "docs_append_content"}
      [] service = "sheets" -> {"sheets_add_row", "sheets_create_spreadsheet"}
      [] service = "slides" -> {"slides_create_presentation"}
      [] service = "drive" -> {"drive_upload_file", "drive_share_file", "drive_list_files"}
      [] service = "forms" -> {"forms_create_form"}
      [] service = "meet" -> {"meet_create_meeting"}
      [] service = "github" ->
            {"github_list_repos", "github_get_repo", "github_create_repo",
             "github_list_issues", "github_create_issue", "github_update_issue",
             "github_add_issue_comment", "github_list_prs", "github_create_pr",
             "github_merge_pr", "github_add_pr_comment", "github_get_user"}
      [] service = "linear" ->
            {"linear_list_teams", "linear_list_issues", "linear_get_issue",
             "linear_create_issue", "linear_update_issue", "linear_add_comment",
             "linear_list_states"}
      [] OTHER -> {}

\* build_tools: the names of the tools built for the keys of integration_configs
build_tools(integration_configs) == UNION {ToolsOfService(s) : s \in integration_configs}

determine_service(tool_name) ==
    LET tool_lower == lower(tool_name)
        has(k) == Contains(tool_lower, k)
    IN  IF has("jira") THEN "jira"
        ELSE IF has("gmail") \/ has("email") THEN "gmail"
        ELSE IF has("calendar") \/ has("event") THEN "calendar"
        ELSE IF has("slack") THEN "slack"
        ELSE IF has("notion") THEN "notion"
        ELSE IF has("bugasura") THEN "bugasura"
        ELSE IF has("docs") \/ has("document") THEN "docs"
        ELSE IF has("sheets") \/ has("spreadsheet") THEN "sheets"
        ELSE IF has("slides") \/ has("presentation") THEN "slides"
        ELSE IF has("drive") \/ has("file") THEN "drive"
        ELSE IF has("forms") \/ has("form") THEN "forms"
        ELSE IF has("meet") \/ has("meeting") THEN "meet"
        ELSE IF has("github") THEN "github"
        ELSE IF has("linear") THEN "linear"
        ELSE "unknown"

\* is_success = observation and "error" not in str(observation).lower()[:50]
\* The value is observation itself when observation is falsy (the empty string),
\* and a bool otherwise: "True" and "False" stand for the two bools.
is_success_whole_text(observation) ==
    IF observation = "" THEN ""
    ELSE IF ~Contains(lower(observation), "error") THEN "True" ELSE "False"

is_success_of(observation) ==
    IF observation = "" THEN ""
    ELSE IF ~Contains(Prefix(lower(observation), 50), "error") THEN "True" ELSE "False"

Truthy(v) == v = "True"

\* ActionResult.success is declared bool: pydantic rejects the empty string
ActionResultAccepts(success) == success \in {"True", "False"}

\* the first task in plan order with this tool name that is still pending, 0 when none
MatchingTask(tasks, tool_name) ==
    LET hits == {k \in 1..Len(tasks) :
                    tasks[k].tool_name = tool_name /\ tasks[k].status = PENDING}
    IN  IF hits = {} THEN 0 ELSE CHOOSE k \in hits : \A j \in hits : k <= j

(***************************************************************************)
(* The inputs of a request and what the outside world can answer.          *)
(***************************************************************************)
MsgSlack == "Post 'Build complete' to #dev-updates on Slack"
MsgMeeting == "Schedule a meeting tomorrow at 2pm and email bob@example.com about it"
MsgHello == "What can you do?"

Messages == {MsgSlack, MsgMeeting, MsgHello}

\* the keys of integration_configs; "teams" is a key build_tools does not know
ConfigSets == {{}, {"teams"}, {"slack"}, {"calendar", "gmail"}}

\* task objects the planner's LLM can answer
ObjMeeting ==
    [id |-> "task_1", service |-> "calendar", action |-> "create_meeting",
     description |-> "Create a meeting", parameters |-> {<<"title", "Meeting">>},
     depends_on |-> <<>>]
ObjEmail ==
    [id |-> "task_2", service |-> "gmail", action |-> "send_email",
     description |-> "Send email about the meeting", parameters |-> {},
     depends_on |-> <<"task_1">>]
ObjSlackNoId == [service |-> "Slack", action |-> "send_message"]
\* an answer that names the id of its first task only: the second task gets the
\* default id f"task_{len(plan.tasks) + 1}"
ObjEmailNoDeps == [id |-> "task_2", service |-> "gmail", action |-> "send_email"]
ObjMeetingNoId == [service |-> "calendar", action |-> "create_meeting"]
ObjNotAnObject == [malformed |-> TRUE]

LLMRaise == [kind |-> "raise"]
LLMUnparseable == [kind |-> "unparseable"]
LLMArray(tasks_data) == [kind |-> "array", tasks_data |-> tasks_data]
LLMObject(keys) == [kind |-> "object", keys |-> keys]
LLMNotCalled == [kind |-> "not_called"]

\* what the planner's LLM call does in a request of the coordinator
\* a task of a connected service with an action SERVICE_TOOL_MAP does not list
ObjCalendarUnknownAction ==
    [id |-> "task_1", service |-> "calendar", action |-> "reschedule"]

CoordLLMResults ==
    {LLMRaise, LLMUnparseable, LLMArray(<<>>), LLMArray(<<ObjMeeting, ObjEmail>>),
     LLMArray(<<ObjSlackNoId>>), LLMArray(<<ObjMeeting, ObjNotAnObject>>),
     LLMObject(<<>>), LLMObject(<<"tasks">>),
     LLMArray(<<ObjEmailNoDeps, ObjMeetingNoId>>),
     LLMArray(<<ObjCalendarUnknownAction>>)}

\* the tool the agent invoked and the text the tool returned
TraceTools == {"calendar_create_event", "gmail_send_email", "slack_send_message"}
ObsOk == "Message sent to #general!"
ObsError == "Error: bad request"
Observations == {ObsOk, ObsError, ""}

Steps == [tool : TraceTools, observation : Observations]

\* all sequences over S of length at most n
RECURSIVE SeqsUpTo(_, _)
SeqsUpTo(S, n) ==
    IF n = 0 THEN {<<>>}
    ELSE LET shorter == SeqsUpTo(S, n - 1)
         IN  shorter \cup {Append(q, x) : q \in {r \in shorter : Len(r) = n - 1}, x \in S}

Traces == SeqsUpTo(Steps, MaxTrace)

\* the final answer of the agent and the texts of the exceptions
AgentOutput == "All tasks are done."
AgentErrorText == "model call failed"
ConstructErrorText == "agent construction failed"
ValidationErrorText == "1 validation error for ActionResult"

(***************************************************************************)
(* process_chat_message_streaming, one action per resumption of the        *)
(* generator: from a yield (or the start) to the next yield, the return or *)
(* the exception that leaves it.                                           *)
(***************************************************************************)
Event(event_type, data) == [event_type |-> event_type, data |-> data]
ErrorEvent(text) == Event("error", [message |-> text])
PlanningEvent(text) == Event("planning", [status |-> text])

NoCur == [matching |-> 0, task_id |-> None, is_success |-> None]

NoAgent == [outcome |-> "not_built", input |-> None]

\* "\n".join(f"- Task {i+1}: {t.description} (use {t.tool_name})" ...) from task k on
RECURSIVE TaskList(_, _)
TaskList(tasks, k) ==
    IF k > Len(tasks) THEN ""
    ELSE "- Task " \o ToString(k) \o ": " \o tasks[k].description
         \o " (use " \o tasks[k].tool_name \o ")"
         \o (IF k < Len(tasks) THEN "\n" ELSE "") \o TaskList(tasks, k + 1)

\* enhanced_message (lines 636-647)
EnhancedMessage(msg, tasks) ==
    msg \o "\n\nIMPORTANT: You must complete ALL of the following tasks:\n"
        \o TaskList(tasks, 1)
        \o "\n\nExecute each task in order and use the results from earlier tasks when needed (e.g., include meeting links in emails).\nDo NOT stop until all tasks are complete."

ActionResult(service, action, success, result, error) ==
    [service |-> service, action |-> action, success |-> success, result |-> result,
     error |-> error]

Init ==
    /\ pc = "start"
    /\ message \in Messages
    /\ configs \in ConfigSets
    /\ userKey \in BOOLEAN
    /\ envKey \in BOOLEAN
    /\ llm = LLMNotCalled
    /\ plan = TaskPlan
    /\ trace = <<>>
    /\ idx = 0
    /\ cur = NoCur
    /\ actions_taken = <<>>
    /\ completed_tasks = {}
    /\ agent = NoAgent
    /\ events = <<>>
    /\ calls = [build |-> 0, planner |-> 0, agent |-> 0, single |-> 0]

\* lines 572-581: no tools
StartNoTools ==
    /\ pc = "start"
    /\ build_tools(configs) = {}
    /\ events' = Append(events,
          ErrorEvent("No integration tools available. Please connect at least one service."))
    /\ pc' = "yield_error_config"
    /\ calls' = [calls EXCEPT !.build = @ + 1]
    /\ UNCHANGED <<message, configs, userKey, envKey, llm, plan, trace, idx, cur,
                   actions_taken, completed_tasks, agent>>

\* lines 583-591: api_key = gemini_api_key or FALLBACK_GOOGLE_API_KEY is empty
StartNoKey ==
    /\ pc = "start"
    /\ build_tools(configs) # {}
    /\ ~(userKey \/ envKey)
    /\ events' = Append(events,
          ErrorEvent("No Gemini API key configured. Please add your Gemini API key in Settings."))
    /\ pc' = "yield_error_config"
    /\ calls' = [calls EXCEPT !.build = @ + 1]
    /\ UNCHANGED <<message, configs, userKey, envKey, llm, plan, trace, idx, cur,
                   actions_taken, completed_tasks, agent>>

\* StartPlanning without the check of api_key
StartPlanningNoKeyCheck ==
    /\ pc = "start"
    /\ build_tools(configs) # {}
    /\ events' = Append(events, PlanningEvent("Analyzing your request..."))
    /\ pc' = "yield_planning"
    /\ calls' = [calls EXCEPT !.build = @ + 1]
    /\ UNCHANGED <<message, configs, userKey, envKey, llm, plan, trace, idx, cur,
                   actions_taken, completed_tasks, agent>>

\* lines 593-597
StartPlanning ==
    /\ pc = "start"
    /\ build_tools(configs) # {}
    /\ userKey \/ envKey
    /\ events' = Append(events, PlanningEvent("Analyzing your request..."))
    /\ pc' = "yield_planning"
    /\ calls' = [calls EXCEPT !.build = @ + 1]
    /\ UNCHANGED <<message, configs, userKey, envKey, llm, plan, trace, idx, cur,
                   actions_taken, completed_tasks, agent>>

\* Plan that does not emit the plan event of a plan with tasks
PlanSkipsPlanEvent ==
    /\ pc = "yield_planning"
    /\ \E r \in (IF envKey THEN CoordLLMResults ELSE {LLMNotCalled}) :
          /\ llm' = r
          /\ plan' = parse_tasks_from_message(message, configs, envKey, r)
    /\ calls' = [calls EXCEPT !.planner = @ + 1]
    /\ events' = Append(events, PlanningEvent("Processing with AI agent..."))
    /\ pc' = IF plan'.tasks = <<>> THEN "yield_planning_single" ELSE "yield_plan"
    /\ UNCHANGED <<message, configs, userKey, envKey, trace, idx, cur, actions_taken,
                   completed_tasks, agent>>

\* Plan that reports an empty plan as an error
PlanEmptyIsError ==
    /\ pc = "yield_planning"
    /\ \E r \in (IF envKey THEN CoordLLMResults ELSE {LLMNotCalled}) :
          /\ llm' = r
          /\ plan' = parse_tasks_from_message(message, configs, envKey, r)
    /\ calls' = [calls EXCEPT !.planner = @ + 1]
    /\ IF plan'.tasks = <<>>
       THEN /\ events' = Append(events, ErrorEvent("No tasks to run"))
            /\ pc' = "yield_error"
       ELSE /\ events' = Append(events, Event("plan", TaskPlan_to_dict(plan')))
            /\ pc' = "yield_plan"
    /\ UNCHANGED <<message, configs, userKey, envKey, trace, idx, cur, actions_taken,
                   completed_tasks, agent>>

\* lines 599-629: the planner runs; an empty plan goes to the single-shot path
Plan ==
    /\ pc = "yield_planning"
    /\ \E r \in (IF envKey THEN CoordLLMResults ELSE {LLMNotCalled}) :
          /\ llm' = r
          /\ plan' = parse_tasks_from_message(message, configs, envKey, r)
    /\ calls' = [calls EXCEPT !.planner = @ + 1]
    /\ IF plan'.tasks = <<>>
       THEN /\ events' = Append(events, PlanningEvent("Processing with AI agent..."))
            /\ pc' = "yield_planning_single"
       ELSE /\ events' = Append(events, Event("plan", TaskPlan_to_dict(plan')))
            /\ pc' = "yield_plan"
    /\ UNCHANGED <<message, configs, userKey, envKey, trace, idx, cur, actions_taken,
                   completed_tasks, agent>>

\* what create_agent_executor and agent.invoke can do in one turn
AgentOutcomes ==
    {[kind |-> "construct_raises"], [kind |-> "invoke_raises"]}
    \cup {[kind |-> "returns", steps |-> tr] : tr \in Traces}

\* process_chat_message (lines 335-399) as the streaming path calls it: the value is
\* the ChatResponse it returns, or raised with the exception's text
process_chat_message(msg, integration_configs, has_api_key, outcome) ==
    IF build_tools(integration_configs) = {}
    THEN [raised |-> FALSE,
          message |-> "No integration tools available. Please connect at least one service.",
          actions_taken |-> <<>>]
    ELSE IF ~has_api_key
    THEN [raised |-> FALSE,
          message |-> "No Gemini API key configured. Please add your Gemini API key in Settings.",
          actions_taken |-> <<>>]
    ELSE IF outcome.kind = "construct_raises"
    THEN [raised |-> TRUE, text |-> ConstructErrorText]
    ELSE IF outcome.kind = "invoke_raises"
    THEN [raised |-> FALSE,
          message |-> "I encountered an error while processing your request: "
                      \o AgentErrorText,
          actions_taken |-> <<ActionResult("agent", "process_message", "False", None,
                                           AgentErrorText)>>]
    ELSE [raised |-> FALSE,
          message |-> AgentOutput,
          actions_taken |->
             [k \in 1..Len(outcome.steps) |->
                ActionResult(determine_service(outcome.steps[k].tool), outcome.steps[k].tool,
                             "True",
                             IF outcome.steps[k].observation # ""
                             THEN outcome.steps[k].observation ELSE None,
                             None)]]

\* lines 608-623: the single-shot path
SingleShot ==
    /\ pc = "yield_planning_single"
    /\ \E o \in AgentOutcomes :
          LET result == process_chat_message(message, configs, userKey \/ envKey, o)
          IN  /\ IF result.raised
                 THEN /\ events' = Append(events, ErrorEvent(result.text))
                      /\ pc' = "yield_error_single"
                 ELSE /\ events' = Append(events,
                            Event("complete", [message |-> result.message,
                                               actions_taken |-> result.actions_taken]))
                      /\ pc' = "yield_complete_single"
              /\ calls' = [calls EXCEPT !.single = @ + 1, !.build = @ + 1,
                                        !.agent = IF o.kind = "construct_raises" THEN @ ELSE @ + 1]
              /\ agent' = [outcome |-> o.kind,
                           input |-> IF o.kind = "construct_raises" THEN None ELSE message]
    /\ UNCHANGED <<message, configs, userKey, envKey, llm, plan, trace, idx, cur,
                   actions_taken, completed_tasks>>

\* The head of the loop over intermediate_steps at i (lines 660-685), or the
\* code after the loop (lines 730-740) when the steps are used up; acts is actions_taken.
EnterStep(i, steps, acts) ==
    IF i >= Len(steps)
    THEN /\ events' = Append(events,
               Event("complete", [message |-> AgentOutput, actions_taken |-> acts,
                                  total_tasks |-> plan.total,
                                  completed_tasks |-> plan.completed,
                                  failed_tasks |-> plan.failed]))
         /\ pc' = "yield_complete"
         /\ UNCHANGED <<idx, cur>>
    ELSE LET tool_name == steps[i + 1].tool
             m == MatchingTask(plan.tasks, tool_name)
             task_id == IF m # 0 THEN plan.tasks[m].id ELSE TaskIdOf(i + 1)
         IN  /\ events' = Append(events,
                   Event("task_started",
                         [task_id |-> task_id, service |-> determine_service(tool_name),
                          action |-> tool_name,
                          description |-> IF m # 0 THEN plan.tasks[m].description
                                          ELSE tool_name]))
             /\ pc' = "yield_task_started"
             /\ idx' = i
             /\ cur' = [matching |-> m, task_id |-> task_id, is_success |-> None]

\* lines 631-685: the agent is built and runs the whole plan in one turn;
\* outcomes is what the construction and the invocation of the agent can do
ExecuteWith(outcomes) ==
    /\ pc = "yield_plan"
    /\ \E o \in outcomes :
          /\ agent' = [outcome |-> o.kind,
                       input |-> IF o.kind = "construct_raises" THEN None
                                 ELSE EnhancedMessage(message, plan.tasks)]
          /\ CASE o.kind = "construct_raises" ->
                  /\ pc' = "raised"
                  /\ UNCHANGED <<trace, idx, cur, events, calls>>
            [] o.kind = "invoke_raises" ->
                  /\ events' = Append(events,
                        ErrorEvent("Error processing request: " \o AgentErrorText))
                  /\ pc' = "yield_error"
                  /\ calls' = [calls EXCEPT !.agent = @ + 1]
                  /\ UNCHANGED <<trace, idx, cur>>
            [] o.kind = "returns" ->
                  \* the executor runs tools of the list it was built with
                  /\ \A k \in 1..Len(o.steps) : o.steps[k].tool \in build_tools(configs)
                  /\ trace' = o.steps
                  /\ calls' = [calls EXCEPT !.agent = @ + 1]
                  /\ EnterStep(0, o.steps, actions_taken)
    /\ UNCHANGED <<message, configs, userKey, envKey, llm, plan, actions_taken,
                   completed_tasks>>

Execute == ExecuteWith(AgentOutcomes)

\* lines 687-720: the outcome of the step, the plan update and its event
AfterStarted ==
    /\ pc = "yield_task_started"
    /\ LET tool_name == trace[idx + 1].tool
           observation == trace[idx + 1].observation
           is_success == is_success_of(observation)
           service == determine_service(tool_name)
       IN  /\ cur' = [cur EXCEPT !.is_success = is_success]
           /\ IF Truthy(is_success)
              THEN /\ plan' = IF cur.matching # 0
                              THEN update_task_status(plan, cur.task_id, COMPLETED,
                                                      observation, None)
                              ELSE plan
                   /\ completed_tasks' = DictSet(completed_tasks, cur.task_id, observation)
                   /\ events' = Append(events,
                         Event("task_completed",
                               [task_id |-> cur.task_id, service |-> service,
                                action |-> tool_name, result |-> Prefix(observation, 500)]))
                   /\ pc' = "yield_task_completed"
              ELSE /\ plan' = IF cur.matching # 0
                              THEN update_task_status(plan, cur.task_id, FAILED, None,
                                                      observation)
                              ELSE plan
                   /\ UNCHANGED completed_tasks
                   /\ events' = Append(events,
                         Event("task_failed",
                               [task_id |-> cur.task_id, service |-> service,
                                action |-> tool_name, error |-> Prefix(observation, 500)]))
                   /\ pc' = "yield_task_failed"
    /\ UNCHANGED <<message, configs, userKey, envKey, llm, trace, idx, actions_taken, agent,
                   calls>>

\* lines 722-746: the action is recorded and the loop goes on, or ends
AfterOutcome ==
    /\ pc \in {"yield_task_completed", "yield_task_failed"}
    /\ LET tool_name == trace[idx + 1].tool
           observation == trace[idx + 1].observation
       IN  IF ~ActionResultAccepts(cur.is_success)
           THEN /\ events' = Append(events,
                      ErrorEvent("Error processing request: " \o ValidationErrorText))
                /\ pc' = "yield_error"
                /\ UNCHANGED <<actions_taken, idx, cur>>
           ELSE /\ actions_taken' =
                      Append(actions_taken,
                             ActionResult(determine_service(tool_name), tool_name,
                                          cur.is_success,
                                          IF Truthy(cur.is_success) THEN observation ELSE None,
                                          IF ~Truthy(cur.is_success) THEN observation ELSE None))
                /\ EnterStep(idx + 1, trace, actions_taken')
    /\ UNCHANGED <<message, configs, userKey, envKey, llm, plan, trace, completed_tasks,
                   agent, calls>>

\* the generator is resumed after its last yield and returns
Return ==
    /\ pc \in {"yield_error_config", "yield_complete_single", "yield_error_single",
               "yield_complete", "yield_error"}
    /\ pc' = "returned"
    /\ UNCHANGED <<message, configs, userKey, envKey, llm, plan, trace, idx, cur,
                   actions_taken, completed_tasks, agent, events, calls>>

CoordNext ==
    \/ StartNoTools
    \/ StartNoKey
    \/ StartPlanning
    \/ Plan
    \/ SingleShot
    \/ Execute
    \/ AfterStarted
    \/ AfterOutcome
    \/ Return

vars == <<coordVars, routerVars, tenantVars, plannerVars>>

\* the variables of the router and of the two-request model, when they are not used
RouterIdle ==
    /\ rpc = "unused" /\ req = None /\ db = <<>> /\ sse = <<>> /\ error_msg = None
    /\ final_message = "" /\ stream_actions = <<>>

TenantsIdle == t_pc = <<>> /\ slack_config = None /\ t_used = <<>>

PlannerIdle == planner_log = <<>>

\* One request handed to process_chat_message_streaming directly.
SpecInit == Init /\ RouterIdle /\ TenantsIdle /\ PlannerIdle

Next ==
    \/ StartNoTools /\ UNCHANGED <<routerVars, tenantVars, plannerVars>>
    \/ StartNoKey /\ UNCHANGED <<routerVars, tenantVars, plannerVars>>
    \/ StartPlanning /\ UNCHANGED <<routerVars, tenantVars, plannerVars>>
    \/ Plan /\ UNCHANGED <<routerVars, tenantVars, plannerVars>>
    \/ SingleShot /\ UNCHANGED <<routerVars, tenantVars, plannerVars>>
    \/ Execute /\ UNCHANGED <<routerVars, tenantVars, plannerVars>>
    \/ AfterStarted /\ UNCHANGED <<routerVars, tenantVars, plannerVars>>
    \/ AfterOutcome /\ UNCHANGED <<routerVars, tenantVars, plannerVars>>
    \/ Return /\ UNCHANGED <<routerVars, tenantVars, plannerVars>>

Spec == SpecInit /\ [][Next]_vars

(***************************************************************************)
(* The planner alone: parse_tasks_from_message applied to a message, the   *)
(* connected services and an answer of its LLM call.                       *)
(***************************************************************************)
MsgAll ==
    "Post to #general, schedule a meeting, email a@b.co, file a bug in project locus and summarize everything in Notion"

PlannerMessages == {MsgSlack, MsgMeeting, MsgHello, MsgAll}

PlannerServices == {"slack", "calendar", "gmail", "jira", "notion"}

ObjJiraUnknownAction ==
    [id |-> "task_1", service |-> "jira", action |-> "create_epic",
     description |-> "Create an epic", depends_on |-> <<"task_2">>]
ObjNoService == [id |-> "task_3", action |-> "send_message"]
ObjTrello == [id |-> "task_4", service |-> "trello", action |-> "add_card"]

PlannerTaskObjects ==
    {ObjMeeting, ObjEmail, ObjSlackNoId, ObjNotAnObject, ObjJiraUnknownAction,
     ObjNoService, ObjTrello}

PlannerLLMResults ==
    {LLMRaise, LLMUnparseable, LLMObject(<<>>), LLMObject(<<"tasks">>)}
    \cup {LLMArray(tasks_data) : tasks_data \in SeqsUpTo(PlannerTaskObjects, MaxLLMTasks)}

PlannerInit ==
    /\ pc = "planner_call"
    /\ message \in PlannerMessages
    /\ configs \in SUBSET PlannerServices
    /\ envKey \in BOOLEAN
    /\ userKey = TRUE
    /\ llm = LLMNotCalled
    /\ plan = TaskPlan
    /\ trace = <<>> /\ idx = 0 /\ cur = NoCur /\ actions_taken = <<>>
    /\ completed_tasks = {} /\ agent = NoAgent /\ events = <<>>
    /\ calls = [build |-> 0, planner |-> 0, agent |-> 0, single |-> 0]
    /\ RouterIdle /\ TenantsIdle /\ PlannerIdle

\* task_plan = parse_tasks_from_message(message, available_services)
PlannerCall ==
    /\ pc = "planner_call"
    /\ \E r \in (IF envKey THEN PlannerLLMResults ELSE {LLMNotCalled}) :
          /\ llm' = r
          /\ plan' = parse_tasks_from_message(message, configs, envKey, r)
    /\ pc' = "planner_returned"
    /\ calls' = [calls EXCEPT !.planner = @ + 1]
    /\ UNCHANGED <<message, configs, userKey, envKey, trace, idx, cur, actions_taken,
                   completed_tasks, agent, events, routerVars, tenantVars, plannerVars>>

SpecPlanner == PlannerInit /\ [][PlannerCall]_vars

\* C5: every task of a plan parse_tasks_from_message returns, on the LLM path
\* and on the fallback path, has a service that is in available_services.
C5_PlanOnlyUsesAvailableServices ==
    pc = "planner_returned"
       => \A k \in 1..Len(plan.tasks) : plan.tasks[k].service \in configs

\* the LLM named a service that is not connected beside one that is
C5_Witness ==
    /\ pc = "planner_returned"
    /\ llm.kind = "array"
    /\ ~LLMPathRaises(llm)
    /\ \E k \in 1..Len(llm.tasks_data) :
          lower(Get(llm.tasks_data[k], "service", "")) \notin configs
    /\ plan.tasks # <<>>

(***************************************************************************)
(* Properties of the event stream of process_chat_message_streaming.       *)
(***************************************************************************)
TaskEventTypes == {"task_started", "task_completed", "task_failed"}
TerminalEventTypes == {"complete", "error"}

TerminalPositions == {k \in 1..Len(events) : events[k].event_type \in TerminalEventTypes}

\* the generator has ended: it returned, or an exception left it
Ended == pc \in {"returned", "raised"}

\* C1: no task_started, task_completed or task_failed event is yielded before a
\* plan event, and no event is yielded after a complete or error event.
C1_PlanFirstTerminalLast ==
    /\ \A k \in 1..Len(events) :
          events[k].event_type \in TaskEventTypes
             => \E j \in 1..(k - 1) : events[j].event_type = "plan"
    /\ \A k \in 1..(Len(events) - 1) : events[k].event_type \notin TerminalEventTypes

C1_Witness ==
    /\ pc = "returned"
    /\ \E k \in 1..Len(events) : events[k].event_type = "task_failed"
    /\ events[Len(events)].event_type = "complete"

\* C2: every run ends having yielded exactly one terminal event (complete or
\* error), also when agent construction, the agent call or the processing of the
\* trace raises.
C2_ExactlyOneTerminalEvent == Ended => Cardinality(TerminalPositions) = 1

\* C4: when task B depends on task A alone, the task_started event of the trace
\* entry matched to B is yielded only after a task_completed or task_failed
\* event of A.
C4_DependencyOrderInStream ==
    (pc = "yield_task_started" /\ cur.matching # 0)
       => LET B == plan.tasks[cur.matching]
          IN  Len(B.depends_on) = 1
                 => \E j \in 1..Len(events) :
                       /\ events[j].event_type \in {"task_completed", "task_failed"}
                       /\ events[j].data.task_id = B.depends_on[1]

\* C6: when the agent invocation raises, the stream ends with exactly one error
\* event and holds no complete event, on the planned and on the single-shot path.
C6_AgentRaiseGivesErrorEvent ==
    (Ended /\ agent.outcome = "invoke_raises")
       => /\ Len(events) > 0
          /\ events[Len(events)].event_type = "error"
          /\ Cardinality({k \in 1..Len(events) : events[k].event_type = "error"}) = 1
          /\ \A k \in 1..Len(events) : events[k].event_type # "complete"

\* C9: with no tools or no Gemini key at all the stream is exactly one error
\* event: no planning or plan event, and neither planner nor agent runs.
C9_ConfigErrorIsSingleErrorEvent ==
    (build_tools(configs) = {} \/ ~(userKey \/ envKey))
       => /\ pc \in {"start", "yield_error_config", "returned"}
          /\ \A k \in 1..Len(events) : events[k].event_type = "error"
          /\ Len(events) = IF pc = "start" THEN 0 ELSE 1
          /\ calls.planner = 0 /\ calls.agent = 0 /\ calls.single = 0

C9_Witness ==
    /\ pc = "returned"
    /\ build_tools(configs) # {}
    /\ ~(userKey \/ envKey)
    /\ Len(events) = 1

\* C10: a plan with zero tasks runs the single-shot agent once on the original
\* message, yields no plan and no task_* event, and an error event comes only
\* from an exception of the single-shot call, never from the plan being empty.
C10_EmptyPlanRunsSingleShot ==
    (calls.planner = 1 /\ plan.tasks = <<>>)
       => /\ pc \in {"yield_planning_single", "yield_complete_single", "yield_error_single",
                     "returned"}
          /\ \A k \in 1..Len(events) :
                events[k].event_type \notin TaskEventTypes \cup {"plan"}
          /\ calls.single = (IF pc = "yield_planning_single" THEN 0 ELSE 1)
          /\ calls.agent <= 1
          /\ agent.input \in {None, message}
          /\ (calls.agent = 1) <=> (agent.input = message)
          /\ \A k \in 1..Len(events) :
                events[k].event_type = "error"
                   => /\ agent.outcome = "construct_raises"
                      /\ events[k].data.message = ConstructErrorText

C10_Witness ==
    /\ pc = "returned"
    /\ calls.planner = 1
    /\ plan.tasks = <<>>
    /\ calls.single = 1
    /\ agent.input = message
    /\ events[Len(events)].event_type = "complete"

(***************************************************************************)
(* Planning failures.                                                      *)
(***************************************************************************)
\* the planner has just returned to the coordinator
PlannerJustReturned == pc \in {"yield_plan", "yield_planning_single"}

\* C11 (as amended): when the planner's LLM call raises, or its answer is
\* rejected by json.loads, or walking the parsed answer raises, the planner
\* returns exactly the plan of _fallback_parse_tasks, no exception leaves the
\* planner and the stream holds no error event when the planner has returned.
C11_LLMFailureFallsBack ==
    /\ (PlannerJustReturned /\ envKey /\ LLMPathRaises(llm))
          => /\ plan = _fallback_parse_tasks(message, configs)
             /\ \A k \in 1..Len(events) : events[k].event_type # "error"
    /\ pc = "raised" => agent.outcome = "construct_raises"

\* the LLM answered one task object and then a value that is no object, and
\* the fallback plan differs from the task converted before the failure
C11_Witness ==
    /\ pc = "yield_plan"
    /\ envKey
    /\ llm = LLMArray(<<ObjMeeting, ObjNotAnObject>>)
    /\ Len(plan.tasks) = 2

\* C11 (as stated): whenever the LLM call raises or its answer is not a list of
\* task objects, the planner returns exactly the plan of _fallback_parse_tasks.
C11_NotAListFallsBack ==
    (PlannerJustReturned /\ envKey /\ (LLMPathRaises(llm) \/ llm.kind = "object"))
       => plan = _fallback_parse_tasks(message, configs)


(***************************************************************************)
(* The status of a task during the turn.                                   *)
(***************************************************************************)
TerminalStatuses == {COMPLETED, FAILED}

\* the tasks whose status is completed or failed
Settled(p) == {k \in 1..Len(p.tasks) : p.tasks[k].status \in TerminalStatuses}

\* C12: a task that becomes completed or failed was in_progress immediately
\* before: the coordinator only moves a task pending -> in_progress and
\* in_progress -> completed | failed.
C12_SettledOnlyFromInProgress ==
    [][\A k \in 1..Len(plan.tasks) :
          (/\ k <= Len(plan'.tasks)
           /\ plan'.tasks[k].status # plan.tasks[k].status
           /\ plan'.tasks[k].status \in TerminalStatuses)
             => plan.tasks[k].status = IN_PROGRESS]_vars

\* C13: a task that is completed or failed keeps its status, result and error
\* for the rest of the turn, and the completed and failed counters grow only by
\* the tasks that become completed or failed.
C13_TerminalStatesAreFinal ==
    [][/\ \A k \in Settled(plan) :
             k <= Len(plan'.tasks)
                => /\ plan'.tasks[k].status = plan.tasks[k].status
                   /\ plan'.tasks[k].result = plan.tasks[k].result
                   /\ plan'.tasks[k].error = plan.tasks[k].error
       /\ (plan'.completed + plan'.failed) - (plan.completed + plan.failed)
             = Cardinality(Settled(plan') \ Settled(plan))]_vars


(***************************************************************************)
(* The success heuristic of the trace loop, on one planned Slack task and  *)
(* the texts a tool can return.                                            *)
(***************************************************************************)
ObsWithoutError == "Operation completed without error."
ObsUpperCase == "ERROR 500: upstream unavailable"
\* "error" starts at the 51st character
ObsLateError == "Spreadsheet updated: all 24 rows were written, no error was reported."
\* "error" is the 46th to 50th character
ObsErrorEndsAt50 == "Rows written to the sheet named Q3 budget no error was raised"
\* "error" is the 47th to 51st character
ObsErrorCutAt50 == "Rows written to the sheet named Q3 budget, no error was raised"

HeuristicObservations ==
    {ObsOk, ObsError, "", ObsWithoutError, ObsUpperCase, ObsLateError, ObsErrorEndsAt50,
     ObsErrorCutAt50}

HeuristicOutcomes ==
    {[kind |-> "returns", steps |-> tr] :
        tr \in SeqsUpTo([tool : {"slack_send_message"}, observation : HeuristicObservations],
                        MaxTrace)}

HeuristicInit ==
    /\ SpecInit
    /\ message = MsgSlack /\ configs = {"slack"} /\ userKey /\ ~envKey

HeuristicNext ==
    \/ StartPlanning /\ UNCHANGED <<routerVars, tenantVars, plannerVars>>
    \/ Plan /\ UNCHANGED <<routerVars, tenantVars, plannerVars>>
    \/ ExecuteWith(HeuristicOutcomes) /\ UNCHANGED <<routerVars, tenantVars, plannerVars>>
    \/ AfterStarted /\ UNCHANGED <<routerVars, tenantVars, plannerVars>>
    \/ AfterOutcome /\ UNCHANGED <<routerVars, tenantVars, plannerVars>>
    \/ Return /\ UNCHANGED <<routerVars, tenantVars, plannerVars>>

SpecHeuristic == HeuristicInit /\ [][HeuristicNext]_vars

\* the coordinator has just classified the trace entry at idx
Classified == pc \in {"yield_task_completed", "yield_task_failed"}

\* the text the tool of the trace entry at idx returned
ReturnedText == trace[idx + 1].observation

\* 'error', in any letter case, lies within the first 50 characters of text
ErrorInFirst50(text) ==
    \E i \in 1..46 : i + 4 <= Len(text) /\ lower(SubSeq(text, i, i + 4)) = "error"

\* C14: a trace entry is classified as failed exactly when the first 50
\* characters of the returned text contain "error" in any letter case; every
\* other returned text is classified as succeeded.
C14_FailedIffErrorInFirst50 ==
    Classified => ((pc = "yield_task_failed") <=> ErrorInFirst50(ReturnedText))

\* C15 (as amended): "Error: bad request" is classified as failure, and so is
\* "Operation completed without error.", whose 34 characters hold "error"
\* within the first 50; a text whose "error" starts after the 50th character is
\* classified as success.
C15_HeuristicBoundary ==
    Classified =>
       /\ ReturnedText = ObsError => pc = "yield_task_failed"
       /\ ReturnedText = ObsWithoutError => pc = "yield_task_failed"
       /\ ReturnedText \in {ObsLateError, ObsErrorCutAt50} => pc = "yield_task_completed"

\* the three boundary texts have been classified in one turn or another; here
\* the text of the specification's example
C15_Witness ==
    /\ pc = "yield_task_failed"
    /\ ReturnedText = ObsWithoutError
    /\ events[Len(events)].data.error = ObsWithoutError

\* C15 (as stated): "Operation completed without error." is classified as
\* success and "Error: bad request" as failure.
C15_WithoutErrorIsSuccess ==
    Classified =>
       /\ ReturnedText = ObsWithoutError => pc = "yield_task_completed"
       /\ ReturnedText = ObsError => pc = "yield_task_failed"


(***************************************************************************)
(* The plans of the fallback planner.                                      *)
(***************************************************************************)
\* parse_tasks_from_message has returned the plan of _fallback_parse_tasks
FallbackPathTaken ==
    /\ pc = "planner_returned"
    /\ ~envKey \/ LLMPathRaises(llm)

\* C16: for "Post 'Build complete' to #dev-updates on Slack" with only slack
\* connected the fallback plan is one task, slack send_message, whose channel
\* parameter is "dev-updates", the whole channel name written after '#'.
C16_ChannelIsWholeName ==
    (FallbackPathTaken /\ message = MsgSlack /\ configs = {"slack"})
       => /\ Len(plan.tasks) = 1
          /\ plan.tasks[1].service = "slack"
          /\ plan.tasks[1].action = "send_message"
          /\ plan.tasks[1].parameters = {<<"channel", "dev-updates">>}


\* the positions of the tasks of a service in the plan
TasksOfService(service) == {k \in 1..Len(plan.tasks) : plan.tasks[k].service = service}

\* the ids in a list of ids
IdSet(ids) == {ids[k] : k \in 1..Len(ids)}

\* C17: in a fallback plan with a calendar task and a gmail task, the gmail
\* task's depends_on holds the calendar task's id and calendar task ids only;
\* for "Schedule a meeting tomorrow at 2pm and email bob@example.com about it"
\* with calendar and gmail connected the plan has exactly two tasks.
C17_GmailDependsOnCalendar ==
    FallbackPathTaken
       => /\ \A g \in TasksOfService("gmail") :
                TasksOfService("calendar") # {}
                   => IdSet(plan.tasks[g].depends_on)
                         = {plan.tasks[c].id : c \in TasksOfService("calendar")}
          /\ (message = MsgMeeting /\ configs = {"calendar", "gmail"})
                => Len(plan.tasks) = 2

C17_Witness ==
    /\ FallbackPathTaken
    /\ message = MsgMeeting
    /\ configs = {"calendar", "gmail"}
    /\ plan.tasks[1].service = "calendar"
    /\ plan.tasks[2].service = "gmail"
    /\ plan.tasks[2].depends_on = <<plan.tasks[1].id>>

\* C18: in a fallback plan a notion task's depends_on is the list of the ids of
\* all tasks detected before it, which are all the other tasks of the plan.
C18_NotionDependsOnAllOthers ==
    FallbackPathTaken
       => \A n \in TasksOfService("notion") :
             /\ n = Len(plan.tasks)
             /\ plan.tasks[n].depends_on = [k \in 1..(n - 1) |-> plan.tasks[k].id]

\* a notion task after two other detected tasks
C18_Witness ==
    /\ FallbackPathTaken
    /\ TasksOfService("notion") = {3}
    /\ plan.tasks[3].depends_on = <<"task_1", "task_2">>


(***************************************************************************)
(* Re-planning: _fallback_parse_tasks called again and again in one        *)
(* process, while the caller settles tasks of the plan it got.             *)
(***************************************************************************)
MaxPlannerCalls == 3

ReplanMessages == {MsgSlack, MsgMeeting}

ReplanServices == {{"slack", "calendar", "gmail"}, {"calendar", "gmail"}}

ReplanInit ==
    /\ pc = "planner_call"
    /\ message \in ReplanMessages
    /\ configs \in ReplanServices
    /\ envKey = FALSE
    /\ userKey = TRUE
    /\ llm = LLMNotCalled
    /\ plan = TaskPlan
    /\ trace = <<>> /\ idx = 0 /\ cur = NoCur /\ actions_taken = <<>>
    /\ completed_tasks = {} /\ agent = NoAgent /\ events = <<>>
    /\ calls = [build |-> 0, planner |-> 0, agent |-> 0, single |-> 0]
    /\ RouterIdle /\ TenantsIdle /\ PlannerIdle

LogEntry(msg, available_services, p) ==
    [message |-> msg, available_services |-> available_services, plan |-> p]

\* a planner whose plans share one task list, which each call appends to
FallbackCallSharedTaskList ==
    /\ pc = "planner_call"
    /\ LET p == _fallback_parse_tasks(message, configs)
       IN  plan' = [p EXCEPT !.tasks = plan.tasks \o @, !.total = Len(plan.tasks) + @]
    /\ planner_log' = Append(planner_log, LogEntry(message, configs, plan'))
    /\ pc' = "planner_returned"
    /\ calls' = [calls EXCEPT !.planner = @ + 1]
    /\ UNCHANGED <<message, configs, userKey, envKey, llm, trace, idx, cur, actions_taken,
                   completed_tasks, agent, events, routerVars, tenantVars>>

\* lines 316-413: plan = TaskPlan() is a new plan with a new task list
FallbackCall ==
    /\ pc = "planner_call"
    /\ plan' = _fallback_parse_tasks(message, configs)
    /\ planner_log' = Append(planner_log, LogEntry(message, configs, plan'))
    /\ pc' = "planner_returned"
    /\ calls' = [calls EXCEPT !.planner = @ + 1]
    /\ UNCHANGED <<message, configs, userKey, envKey, llm, trace, idx, cur, actions_taken,
                   completed_tasks, agent, events, routerVars, tenantVars>>

\* the caller settles a pending task of the plan it holds (agent.py lines 693, 709),
\* at most once per task of the plan
SettleTask ==
    /\ pc = "planner_returned"
    /\ plan.completed + plan.failed < plan.total
    /\ \E k \in 1..Len(plan.tasks) :
          /\ plan.tasks[k].status = PENDING
          /\ \/ plan' = update_task_status(plan, plan.tasks[k].id, COMPLETED, ObsOk, None)
             \/ plan' = update_task_status(plan, plan.tasks[k].id, FAILED, None, ObsError)
    /\ UNCHANGED <<pc, message, configs, userKey, envKey, llm, trace, idx, cur,
                   actions_taken, completed_tasks, agent, events, calls, routerVars,
                   tenantVars, plannerVars>>

\* the next request arrives, with the same or another message and services
NextPlannerCall ==
    /\ pc = "planner_returned"
    /\ calls.planner < MaxPlannerCalls
    /\ message' \in ReplanMessages
    /\ configs' \in ReplanServices
    /\ pc' = "planner_call"
    /\ UNCHANGED <<userKey, envKey, llm, plan, trace, idx, cur, actions_taken,
                   completed_tasks, agent, events, calls, routerVars, tenantVars,
                   plannerVars>>

ReplanNext ==
    \/ FallbackCall
    \/ SettleTask
    \/ NextPlannerCall

SpecReplan == ReplanInit /\ [][ReplanNext]_vars

\* the sequence of (id, service, action, tool_name, parameters, depends_on)
TaskShapes(p) ==
    [k \in 1..Len(p.tasks) |->
        <<p.tasks[k].id, p.tasks[k].service, p.tasks[k].action, p.tasks[k].tool_name,
          p.tasks[k].parameters, p.tasks[k].depends_on>>]

RoundTripInit ==
    /\ PlannerInit
    /\ message = MsgMeeting
    /\ configs \in ReplanServices

\* [t.to_dict() for t in plan.tasks], converted back to a plan
ParsedBack(p, available_services) ==
    LET tasks_data == [k \in 1..Len(p.tasks) |-> PlannedTask_to_dict(p.tasks[k])]
        tasks == ConvertTasks(<<>>, tasks_data, available_services)
    IN  [TaskPlan EXCEPT !.tasks = tasks, !.total = Len(tasks)]

RoundTrip ==
    /\ pc = "planner_returned"
    /\ planner_log' = <<LogEntry(message, configs, ParsedBack(plan, configs))>>
    /\ pc' = "parsed_back"
    /\ UNCHANGED <<message, configs, userKey, envKey, llm, plan, trace, idx, cur,
                   actions_taken, completed_tasks, agent, events, calls, routerVars,
                   tenantVars>>

RoundTripNext ==
    \/ PlannerCall
    \/ SettleTask
    \/ RoundTrip

SpecRoundTrip == RoundTripInit /\ [][RoundTripNext]_vars

\* C20: a PlannedTask written with to_dict and parsed back as a task object
\* has the same id, service, action, status and depends_on.
C20_ToDictRoundTrip ==
    pc = "parsed_back"
       => LET back == planner_log[1].plan.tasks
          IN  /\ Len(back) = Len(plan.tasks)
              /\ \A k \in 1..Len(plan.tasks) :
                    /\ back[k].id = plan.tasks[k].id
                    /\ back[k].service = plan.tasks[k].service
                    /\ back[k].action = plan.tasks[k].action
                    /\ back[k].status = plan.tasks[k].status
                    /\ back[k].depends_on = plan.tasks[k].depends_on


(***************************************************************************)
(* TaskPlan.get_next_task on the plans the planner returns, with tasks     *)
(* settled by the caller.                                                  *)
(***************************************************************************)
NextTaskServices == {{"calendar", "gmail"}, {"gmail", "jira"}}

NextTaskInit ==
    /\ PlannerInit
    /\ message = MsgMeeting
    /\ configs \in NextTaskServices

\* next_task = task_plan.get_next_task(); cur holds the task it returned
GetNextTask ==
    /\ pc = "planner_returned"
    /\ LET k == get_next_task(plan)
       IN  cur' = [matching |-> k,
                   task_id |-> IF k = 0 THEN None ELSE plan.tasks[k].id,
                   is_success |-> None]
    /\ pc' = "next_task_returned"
    /\ UNCHANGED <<message, configs, userKey, envKey, llm, plan, trace, idx, actions_taken,
                   completed_tasks, agent, events, calls, routerVars, tenantVars,
                   plannerVars>>

NextTaskNext ==
    \/ PlannerCall
    \/ SettleTask
    \/ GetNextTask

SpecNextTask == NextTaskInit /\ [][NextTaskNext]_vars

\* the ids of the tasks of the plan that are completed
CompletedIds ==
    {plan.tasks[j].id : j \in {i \in 1..Len(plan.tasks) : plan.tasks[i].status = COMPLETED}}

\* the pending tasks all of whose depends_on ids are ids of completed tasks
ReadyTasks ==
    {k \in 1..Len(plan.tasks) :
        /\ plan.tasks[k].status = PENDING
        /\ IdSet(plan.tasks[k].depends_on) \subseteq CompletedIds}

\* C21: get_next_task returns the first task in plan order that is pending and
\* all of whose depends_on ids belong to completed tasks, and None exactly when
\* there is no such task; a task with a depends_on id that names no task, or
\* names a failed task only, is never returned.
C21_NextTaskIsFirstReady ==
    pc = "next_task_returned"
       => /\ (cur.matching = 0) <=> (ReadyTasks = {})
          /\ cur.matching # 0
                => /\ cur.matching \in ReadyTasks
                   /\ \A k \in ReadyTasks : cur.matching <= k
                   /\ \A d \in IdSet(plan.tasks[cur.matching].depends_on) :
                         /\ d \in IdSet(IdsOf(plan.tasks))
                         /\ \E j \in 1..Len(plan.tasks) :
                               plan.tasks[j].id = d /\ plan.tasks[j].status # FAILED

\* the first task failed, the task that depends on it is pending and is not
\* returned
C21_Witness ==
    /\ pc = "next_task_returned"
    /\ Len(plan.tasks) = 2
    /\ plan.tasks[1].status = FAILED
    /\ plan.tasks[2].status = PENDING
    /\ plan.tasks[2].depends_on = <<plan.tasks[1].id>>
    /\ cur.matching = 0


(***************************************************************************)
(* Matching trace entries to planned tasks.                                *)
(***************************************************************************)
\* the tool of the trace entry at idx
InvokedTool == trace[idx + 1].tool

\* the pending tasks of the plan whose tool_name is the invoked tool
PendingWithTool(tool_name) ==
    {k \in 1..Len(plan.tasks) :
        plan.tasks[k].tool_name = tool_name /\ plan.tasks[k].status = PENDING}

\* C22: a trace entry is matched to the first task in plan order that is
\* pending and has the invoked tool's name, and the entry settles exactly that
\* task: no other task's status, result or error changes.
C22_EntrySettlesMatchedTask ==
    [][(pc = "yield_task_started" /\ cur.matching # 0)
          => /\ cur.matching \in PendingWithTool(InvokedTool)
             /\ \A k \in PendingWithTool(InvokedTool) : cur.matching <= k
             /\ plan'.tasks[cur.matching].status \in TerminalStatuses
             /\ \A k \in 1..Len(plan.tasks) :
                   k # cur.matching => plan'.tasks[k] = plan.tasks[k]]_vars

\* C23: a trace entry that matches no pending task leaves the plan as it is
\* (every task, the counters, task_results); its task_started event is followed
\* by a task_completed or task_failed event and then one entry is appended to
\* actions_taken.
C23_UnmatchedEntryLeavesPlan ==
    [][/\ (pc = "yield_task_started" /\ cur.matching = 0)
             => /\ plan' = plan
                /\ pc' \in {"yield_task_completed", "yield_task_failed"}
                /\ events'[Len(events')].event_type \in {"task_completed", "task_failed"}
                /\ events'[Len(events')].data.task_id = cur.task_id
       /\ (pc \in {"yield_task_completed", "yield_task_failed"} /\ cur.matching = 0)
             => /\ plan' = plan
                /\ Len(actions_taken') = Len(actions_taken) + 1]_vars


(***************************************************************************)
(* Planned tasks whose tool is not in the registry.                        *)
(***************************************************************************)
\* the tasks of the plan whose tool_name names no tool build_tools returned
UnregisteredTasks ==
    {k \in 1..Len(plan.tasks) : plan.tasks[k].tool_name \notin build_tools(configs)}

\* the complete event of the multi-task path, once it has been yielded
CompleteYielded == pc = "yield_complete" /\ events[Len(events)].event_type = "complete"

\* C24: a planned task whose (service, action) pair is not in SERVICE_TOOL_MAP
\* has the tool name service_action, and when the registry has no tool of that
\* name the task is failed at the complete event and failed_tasks counts it.
C24_UnregisteredToolTaskFails ==
    /\ \A k \in 1..Len(plan.tasks) :
          LET t == plan.tasks[k]
          IN  (~\E e \in SERVICE_TOOL_MAP : e[1] = t.service /\ e[2] = t.action)
                 => t.tool_name = t.service \o "_" \o t.action
    /\ CompleteYielded
          => /\ \A k \in UnregisteredTasks : plan.tasks[k].status = FAILED
             /\ events[Len(events)].data.failed_tasks >= Cardinality(UnregisteredTasks)


(***************************************************************************)
(* Well-formedness of the plans the planner returns.                       *)
(***************************************************************************)
\* the positions of the tasks that the task at position k names in depends_on
DependsOnPositions(tasks, k) ==
    {j \in 1..Len(tasks) : tasks[j].id \in IdSet(tasks[k].depends_on)}

\* the positions reachable from the positions S in at most n dependency steps
RECURSIVE ReachableIn(_, _, _)
ReachableIn(tasks, S, n) ==
    IF n = 0 THEN S
    ELSE ReachableIn(tasks, S \cup UNION {DependsOnPositions(tasks, j) : j \in S}, n - 1)

DependencyCycle(tasks) ==
    \E k \in 1..Len(tasks) :
        k \in ReachableIn(tasks, DependsOnPositions(tasks, k), Len(tasks))

\* C25: in a plan parse_tasks_from_message returns, every id in a task's
\* depends_on is the id of a task at an earlier or equal position of the plan,
\* and no task depends on itself through a chain of dependencies.
C25_DependenciesPointBackwards ==
    pc = "planner_returned"
       => /\ \A k \in 1..Len(plan.tasks) :
                \A d \in IdSet(plan.tasks[k].depends_on) :
                    \E j \in 1..k : plan.tasks[j].id = d
          /\ ~DependencyCycle(plan.tasks)


\* C26: in a plan parse_tasks_from_message returns the task ids are pairwise
\* distinct, also when the LLM left out the id of some tasks; a fallback plan
\* has the ids task_1 .. task_n in plan order and total = n.
C26_TaskIdsAreDistinct ==
    /\ pc = "planner_returned"
          => \A j, k \in 1..Len(plan.tasks) :
                 plan.tasks[j].id = plan.tasks[k].id => j = k
    /\ FallbackPathTaken
          => /\ \A k \in 1..Len(plan.tasks) : plan.tasks[k].id = "task_" \o ToString(k)
             /\ plan.total = Len(plan.tasks)


(***************************************************************************)
(* The plan while the coordinator executes it.                             *)
(***************************************************************************)
\* the positions of the tasks of the plan that have the status
TasksWithStatus(status) == {k \in 1..Len(plan.tasks) : plan.tasks[k].status = status}

\* C27: during execution a completed task has a result and no error, a failed
\* task has an error and no result, also when the tool returned nothing, and a
\* pending task has neither.
C27_ResultXorError ==
    \A k \in 1..Len(plan.tasks) :
        LET t == plan.tasks[k]
        IN  /\ t.status = COMPLETED => t.result # None /\ t.error = None
            /\ t.status = FAILED => t.error # None /\ t.result = None
            /\ t.status = PENDING => t.result = None /\ t.error = None

\* C28: during execution and in the complete event, completed is the number
\* of completed tasks, failed the number of failed tasks, total the number of
\* tasks, and completed + failed <= total.
C28_CountersMatchStatuses ==
    /\ plan.completed = Cardinality(TasksWithStatus(COMPLETED))
    /\ plan.failed = Cardinality(TasksWithStatus(FAILED))
    /\ plan.total = Len(plan.tasks)
    /\ plan.completed + plan.failed <= plan.total
    /\ CompleteYielded
          => /\ events[Len(events)].data.completed_tasks = Cardinality(TasksWithStatus(COMPLETED))
             /\ events[Len(events)].data.failed_tasks = Cardinality(TasksWithStatus(FAILED))
             /\ events[Len(events)].data.total_tasks = Len(plan.tasks)


\* C29: the task id of the events of a trace entry that matched no pending task
\* (task_<trace position>) is not the id of any task of the plan.
C29_UnplannedIdIsFresh ==
    (/\ pc \in {"yield_task_started", "yield_task_completed", "yield_task_failed"}
     /\ cur.matching = 0)
       => /\ events[Len(events)].data.task_id = cur.task_id
          /\ \A k \in 1..Len(plan.tasks) : plan.tasks[k].id # cur.task_id


(***************************************************************************)
(* routers/chat.py: POST /chat/stream.  chat_stream runs to its return     *)
(* without awaiting; event_generator is resumed once per event it sends.   *)
(***************************************************************************)
ConversationId == 1

\* what the database holds for the request: the user row, the conversation the
\* request names ("none": no conversation_id, a new one is created), the services
\* with an integration row, those of them with a stored key or credentials, and
\* whether the user stored a Gemini key
Requests ==
    [user_exists : BOOLEAN,
     conversation : {"none", "missing", "foreign", "own"},
     integrations : {{}, {"slack"}, {"calendar", "gmail"}},
     with_config : BOOLEAN,
     gemini : BOOLEAN]

DbErrorText == "database commit failed"

Message(role, content, actions_json) ==
    [role |-> role, content |-> content, actions_json |-> actions_json]

RouterInit ==
    /\ Init
    /\ userKey = FALSE
    /\ configs = {}
    /\ rpc = "request"
    /\ req \in Requests
    /\ db = <<>>
    /\ sse = <<>>
    /\ error_msg = None
    /\ final_message = ""
    /\ stream_actions = <<>>
    /\ TenantsIdle /\ PlannerIdle

\* lines 185-273 and 323-331: chat_stream up to the StreamingResponse it returns
chat_stream ==
    /\ rpc = "request"
    /\ IF ~req.user_exists
       THEN /\ error_msg' = "User not found"
            /\ rpc' = "error_generator"
            /\ UNCHANGED <<db, configs, userKey>>
       ELSE IF req.conversation = "missing"
       THEN /\ error_msg' = "Conversation not found"
            /\ rpc' = "error_generator"
            /\ UNCHANGED <<db, configs, userKey>>
       ELSE IF req.conversation = "foreign"
       THEN /\ error_msg' = "Conversation does not belong to user"
            /\ rpc' = "error_generator"
            /\ UNCHANGED <<db, configs, userKey>>
       ELSE IF req.integrations = {}
       THEN /\ error_msg' = "No integrations connected. Please connect at least one service first."
            /\ db' = db \o <<Message("user", message, None),
                             Message("assistant", error_msg', None)>>
            /\ rpc' = "error_generator"
            /\ UNCHANGED <<configs, userKey>>
       ELSE /\ db' = Append(db, Message("user", message, None))
            /\ configs' = IF req.with_config THEN req.integrations ELSE {}
            /\ IF ~req.gemini
               THEN /\ error_msg' = "Gemini API Key is required. Please set it in Settings."
                    /\ rpc' = "error_generator"
                    /\ UNCHANGED userKey
               ELSE /\ userKey' = TRUE
                    /\ rpc' = "streaming"
                    /\ UNCHANGED error_msg
    /\ UNCHANGED <<pc, message, envKey, llm, plan, trace, idx, cur, actions_taken,
                   completed_tasks, agent, events, calls, req, sse, final_message,
                   stream_actions, tenantVars, plannerVars>>

\* error_generator: one error event, then the stream ends
error_generator ==
    /\ rpc = "error_generator"
    /\ sse' = Append(sse, ErrorEvent(error_msg))
    /\ rpc' = "done"
    /\ UNCHANGED <<coordVars, req, db, error_msg, final_message, stream_actions, tenantVars, plannerVars>>

\* lines 312-321: the except branch of event_generator; add_message can raise too
EventGeneratorExcept(text) ==
    \/ /\ db' = Append(db, Message("assistant", "Error: " \o text, None))
       /\ sse' = Append(sse, Event("error", [message |-> text,
                                             conversation_id |-> ConversationId]))
       /\ rpc' = "done"
    \/ /\ rpc' = "aborted"
       /\ UNCHANGED <<db, sse>>

\* lines 299-310: the assistant's turn is saved after the stream
SaveAssistantMessage ==
    \/ /\ db' = Append(db,
                  Message("assistant",
                          IF final_message # "" THEN final_message ELSE "Task completed.",
                          IF stream_actions # <<>> THEN stream_actions ELSE None))
       /\ rpc' = "done"
       /\ UNCHANGED sse
    \/ EventGeneratorExcept(DbErrorText)

\* lines 281-297: event_generator is resumed: the coordinator runs to its next
\* event, which is sent on; or it ends, or an exception leaves it
event_generator ==
    /\ rpc = "streaming"
    /\ CoordNext
    /\ CASE pc' = "returned" ->
               /\ SaveAssistantMessage
               /\ UNCHANGED <<final_message, stream_actions>>
         [] pc' = "raised" ->
               /\ EventGeneratorExcept(ConstructErrorText)
               /\ UNCHANGED <<final_message, stream_actions>>
         [] OTHER ->
               LET event == events'[Len(events')]
                   is_complete == event.event_type = "complete"
               IN  /\ final_message' = IF is_complete THEN event.data.message
                                       ELSE final_message
                   /\ stream_actions' = IF is_complete THEN event.data.actions_taken
                                        ELSE stream_actions
                   /\ sse' = Append(sse,
                         [event EXCEPT !.data = @ @@ [conversation_id |-> ConversationId]])
                   /\ UNCHANGED <<rpc, db>>
    /\ UNCHANGED <<req, error_msg, tenantVars, plannerVars>>

RouterNext ==
    \/ chat_stream
    \/ error_generator
    \/ event_generator

SpecRouter == RouterInit /\ [][RouterNext]_vars

\* the positions of the assistant messages persisted in the conversation
AssistantMessages == {k \in 1..Len(db) : db[k].role = "assistant"}

\* the request is over: its stream ended, or was cut by an exception
RequestOver == rpc \in {"done", "aborted"}

\* C7: when the stream of a request ends with the error event the coordinator
\* yields for a fatal failure of the agent turn, an assistant message persisted
\* for the turn contains the text of that error event.
C7_ErrorTextIsPersisted ==
    (rpc = "done" /\ pc = "returned" /\ calls.agent > 0 /\ events # <<>>
        /\ events[Len(events)].event_type = "error")
       => \E k \in AssistantMessages :
             Contains(db[k].content, events[Len(events)].data.message)

\* C8: a request that persisted the user's message has exactly one assistant
\* message persisted when its response stream has ended.
C8_OneAssistantMessagePerTurn ==
    (rpc = "done" /\ \E k \in 1..Len(db) : db[k].role = "user")
       => Cardinality(AssistantMessages) = 1

\* C30: in the stream event_generator sends to the client no event follows a
\* complete or an error event, also when saving the assistant message fails
\* after the coordinator's stream has ended.
C30_NothingAfterTerminalEvent ==
    \A k \in 1..Len(sse) :
        sse[k].event_type \in TerminalEventTypes => k = Len(sse)


(***************************************************************************)
(* Two streaming requests of different users in one process.  The event    *)
(* loop switches between them only where a generator is suspended at a     *)
(* yield; services/slack.py keeps the bot token in a module-level global.  *)
(***************************************************************************)
MaxToolCalls == 2

Tenants == {1, 2}

\* the bot token request r passes to build_tools
bot_token(r) == IF r = 1 THEN "xoxb-user-1" ELSE "xoxb-user-2"

TenantsInit ==
    /\ Init
    /\ message = MsgSlack /\ configs = {"slack"} /\ userKey /\ ~envKey
    /\ RouterIdle /\ PlannerIdle
    /\ t_pc = [r \in Tenants |-> "start"]
    /\ slack_config = [bot_token |-> None]
    /\ t_used = [r \in Tenants |-> <<>>]

\* slack.py lines 206-223: get_slack_tools rebinds the module global
get_slack_tools(token) == [bot_token |-> token]

\* slack.py lines 39-50: a tool reads the global when it is called; n calls made
\* back to back inside one agent.invoke all read the same value
slack_send_message(used, n) == used \o [k \in 1..n |-> slack_config.bot_token]

\* agent.py lines 572-597: build_tools, then the planning event
T_BuildTools(r) ==
    /\ t_pc[r] = "start"
    /\ slack_config' = get_slack_tools(bot_token(r))
    /\ t_pc' = [t_pc EXCEPT ![r] = "yield_planning"]
    /\ UNCHANGED t_used

\* agent.py lines 599-629: the planner; a plan with tasks is yielded, an empty
\* one yields the second planning event
T_Plan(r) ==
    /\ t_pc[r] = "yield_planning"
    /\ \E empty \in BOOLEAN :
          t_pc' = [t_pc EXCEPT ![r] = IF empty THEN "yield_planning_single"
                                      ELSE "yield_plan"]
    /\ UNCHANGED <<slack_config, t_used>>

\* agent.py lines 632-685: the executor is made from the tools built at line 572
\* and invoked: the agent's tool calls run with the global as it is now
T_Invoke(r) ==
    /\ t_pc[r] = "yield_plan"
    /\ \E n \in 0..MaxToolCalls :
          /\ t_used' = [t_used EXCEPT ![r] = slack_send_message(@, n)]
          /\ t_pc' = [t_pc EXCEPT ![r] = IF n = 0 THEN "yield_complete"
                                         ELSE "yield_task_started"]
    /\ UNCHANGED slack_config

\* agent.py lines 608-623 and 336-358: process_chat_message calls build_tools
\* again and invokes the agent without suspending in between
T_SingleShot(r) ==
    /\ t_pc[r] = "yield_planning_single"
    /\ slack_config' = get_slack_tools(bot_token(r))
    /\ \E n \in 0..MaxToolCalls :
          t_used' = [t_used EXCEPT ![r] =
                        @ \o [k \in 1..n |-> slack_config'.bot_token]]
    /\ t_pc' = [t_pc EXCEPT ![r] = "yield_complete"]

\* agent.py lines 677-728: the events of the trace entries, one resumption each
T_TaskEvents(r) ==
    /\ t_pc[r] \in {"yield_task_started", "yield_task_completed"}
    /\ t_pc' = [t_pc EXCEPT ![r] = IF @ = "yield_task_started"
                                   THEN "yield_task_completed"
                                   ELSE "yield_complete"]
    /\ UNCHANGED <<slack_config, t_used>>

\* agent.py lines 731-740: resumed after the complete event, the generator ends
T_Return(r) ==
    /\ t_pc[r] = "yield_complete"
    /\ t_pc' = [t_pc EXCEPT ![r] = "returned"]
    /\ UNCHANGED <<slack_config, t_used>>

TenantsNext ==
    \/ \E r \in Tenants : T_BuildTools(r) /\ UNCHANGED <<coordVars, routerVars, plannerVars>>
    \/ \E r \in Tenants : T_Plan(r) /\ UNCHANGED <<coordVars, routerVars, plannerVars>>
    \/ \E r \in Tenants : T_Invoke(r) /\ UNCHANGED <<coordVars, routerVars, plannerVars>>
    \/ \E r \in Tenants : T_SingleShot(r) /\ UNCHANGED <<coordVars, routerVars, plannerVars>>
    \/ \E r \in Tenants : T_TaskEvents(r) /\ UNCHANGED <<coordVars, routerVars, plannerVars>>
    \/ \E r \in Tenants : T_Return(r) /\ UNCHANGED <<coordVars, routerVars, plannerVars>>

SpecTenants == TenantsInit /\ [][TenantsNext]_vars

\* C3: every tool call made during a request's agent turn uses the bot token
\* that this request passed to build_tools.
C3_ToolCallsUseOwnCredentials ==
    \A r \in Tenants : \A k \in 1..Len(t_used[r]) : t_used[r][k] = bot_token(r)

====
